---- MODULE Spec2Model ----
(***************************************************************************)
(* Model of sunslack.py: one process invocation (main) polls the NOAA     *)
(* alerts and 27-day outlook feeds, compares each parsed snapshot with    *)
(* the pickled cache entry and posts to Slack when the snapshot is new.   *)
(*                                                                         *)
(* A text line is modelled as the sequence of its whitespace separated    *)
(* tokens; a payload is a sequence of lines.  Python None is the empty    *)
(* sequence: an optional value is a sequence of length 0 or 1, and a date *)
(* is a non-empty sequence of integers.                                    *)
(***************************************************************************)
EXTENDS Integers, Sequences, FiniteSets, TLC

VARIABLES pc, opts, config, cache, damage, obj, message, exitstatus,
          run, watch, cur, last, chart

vars == <<pc, opts, config, cache, damage, obj, message, exitstatus,
          run, watch, cur, last, chart>>

None == <<>>

EX_CONFIG == 78
EX_IOERR == 74
EX_OK == 0
EX_UNCAUGHT == 1
HTTP_OK == 200

Feeds == {"alerts", "flux"}
Kinds == {"alerts", "flux", "muf"}

(***************************************************************************)
(* Token tables: what int() and strptime() accept.                         *)
(***************************************************************************)
YearOf == ("2024" :> 2024)
MonthOf == ("Mar" :> 3)
DayOf == ("04" :> 4) @@ ("05" :> 5) @@ ("11" :> 11)
HhmmOf == ("1205" :> <<12, 5>>) @@ ("0005" :> <<0, 5>>)
ZoneNames == {"UTC"}
IntOf == YearOf @@ DayOf @@ ("120" :> 120) @@ ("6" :> 6) @@ ("2" :> 2) @@ ("3" :> 3)

ColonTokens == {":Issued:", ":Issued", ":Product:"}
HashTokens == {"#"}
IssuedColonTokens == {":Issued:"}
IssuedTokens == {":Issued:", ":Issued"}

StartsWith(line, toks) == Len(line) > 0 /\ line[1] \in toks

\* datetime.strptime(line, ':Issued: %Y %b %d %H%M %Z') raises ValueError
\* unless the line has exactly this shape.
IssuedOk(line) ==
  /\ Len(line) = 6
  /\ line[1] = ":Issued:"
  /\ line[2] \in DOMAIN YearOf
  /\ line[3] \in DOMAIN MonthOf
  /\ line[4] \in DOMAIN DayOf
  /\ line[5] \in DOMAIN HhmmOf
  /\ line[6] \in ZoneNames

StrpIssued(line) ==
  <<YearOf[line[2]], MonthOf[line[3]], DayOf[line[4]]>> \o HhmmOf[line[5]]

\* SunRecord.__init__ raises IndexError on a short token list and
\* ValueError on a bad date or a non-integer index.
SunRecordOk(args) ==
  /\ Len(args) >= 6
  /\ args[1] \in DOMAIN YearOf
  /\ args[2] \in DOMAIN MonthOf
  /\ args[3] \in DOMAIN DayOf
  /\ args[4] \in DOMAIN IntOf
  /\ args[5] \in DOMAIN IntOf
  /\ args[6] \in DOMAIN IntOf

SunRecord(args) ==
  [date |-> <<YearOf[args[1]], MonthOf[args[2]], DayOf[args[3]]>>,
   data |-> [flux |-> IntOf[args[4]], a_index |-> IntOf[args[5]],
             kp_index |-> IntOf[args[6]]]]

NoaaData == [date |-> None, fields |-> <<>>]

\* Variants of the definitions below, used to test the properties.
NoaaData_eq_identity(self, other) == FALSE

NoaaData_eq_fields(self, other) ==
  IF other = None THEN FALSE
  ELSE self.date = other[1].date /\ self.fields = other[1].fields

\* NoaaData.__eq__: other is the optional cached value.
NoaaData_eq(self, other) ==
  IF other = None THEN FALSE ELSE self.date = other[1].date

(***************************************************************************)
(* Flux.download_flux and Alerts.download, after the request returned.     *)
(* The result is [ok, data]; ok = FALSE stands for an exception raised     *)
(* while parsing (nothing in the program catches it).                      *)
(***************************************************************************)
RECURSIVE FluxLines_first(_, _, _)
FluxLines_first(text, i, predictions) ==
  IF i > Len(text) THEN [ok |-> TRUE, data |-> predictions]
  ELSE LET line == text[i] IN
    IF StartsWith(line, IssuedColonTokens)
    THEN IF IssuedOk(line)
         THEN FluxLines_first(text, i + 1,
                [predictions EXCEPT !.date = IF @ = None THEN StrpIssued(line) ELSE @])
         ELSE [ok |-> FALSE, data |-> predictions]
    ELSE IF line = <<>> \/ StartsWith(line, ColonTokens) \/ StartsWith(line, HashTokens)
    THEN FluxLines_first(text, i + 1, predictions)
    ELSE IF SunRecordOk(line)
    THEN FluxLines_first(text, i + 1,
                   [predictions EXCEPT !.fields = Append(@, SunRecord(line))])
    ELSE [ok |-> FALSE, data |-> predictions]

RECURSIVE FluxLines(_, _, _)
FluxLines(text, i, predictions) ==
  IF i > Len(text) THEN [ok |-> TRUE, data |-> predictions]
  ELSE LET line == text[i] IN
    IF StartsWith(line, IssuedColonTokens)
    THEN IF IssuedOk(line)
         THEN FluxLines(text, i + 1, [predictions EXCEPT !.date = StrpIssued(line)])
         ELSE [ok |-> FALSE, data |-> predictions]
    ELSE IF line = <<>> \/ StartsWith(line, ColonTokens) \/ StartsWith(line, HashTokens)
    THEN FluxLines(text, i + 1, predictions)
    ELSE IF SunRecordOk(line)
    THEN FluxLines(text, i + 1,
                   [predictions EXCEPT !.fields = Append(@, SunRecord(line))])
    ELSE [ok |-> FALSE, data |-> predictions]

download_flux(req) ==
  IF req.status = HTTP_OK THEN FluxLines(req.text, 1, NoaaData)
  ELSE [ok |-> TRUE, data |-> NoaaData]

RECURSIVE AlertLines(_, _, _)
AlertLines(text, i, alerts) ==
  IF i > Len(text) THEN [ok |-> TRUE, data |-> alerts]
  ELSE LET line == text[i] IN
    IF StartsWith(line, IssuedTokens)
    THEN IF IssuedOk(line)
         THEN AlertLines(text, i + 1, [alerts EXCEPT !.date = StrpIssued(line)])
         ELSE [ok |-> FALSE, data |-> alerts]
    ELSE IF line = <<>> \/ StartsWith(line, ColonTokens) \/ StartsWith(line, HashTokens)
    THEN AlertLines(text, i + 1, alerts)
    ELSE AlertLines(text, i + 1, [alerts EXCEPT !.fields = Append(@, line)])

download(req) ==
  IF req.status = HTTP_OK THEN AlertLines(req.text, 1, NoaaData)
  ELSE [ok |-> TRUE, data |-> NoaaData]

Download(feed, req) == IF feed = "flux" THEN download_flux(req) ELSE download(req)

\* readcache: a missing file reads as None, and so does a file pickle.load
\* leaves with EOFError (an empty file); any other damage makes pickle.load
\* raise UnpicklingError, which readcache does not catch.
readcache(store, files, feed) ==
  [ok |-> files[feed] # "garbled",
   data |-> IF files[feed] = "intact" THEN store[feed] ELSE None]

writecache_shared(store, feed, data) == [f \in DOMAIN store |-> <<data>>]

writecache_deferred(store, feed, data) == store

\* writecache: the entry is replaced by the pickled snapshot.
writecache(store, feed, data) == [store EXCEPT ![feed] = <<data>>]

newdata_nocache(data, cached_data) == cached_data = None

\* The comparison of Flux.__init__ / Alerts.__init__.
newdata(data, cached_data) == ~NoaaData_eq(data, cached_data)

Alerts_text_all(data) == data.fields

\* Alerts.text: the lines that do not start with 'No space weather'.
Sentinel(line) ==
  Len(line) >= 3 /\ SubSeq(line, 1, 3) = <<"No", "space", "weather">>

Alerts_text(data) == SelectSeq(data.fields, LAMBDA f : ~Sentinel(f))

time_tag_seconds(now) == now

\* get_flux, lines 354-356: the file name is the time of the run, to the
\* minute; now is <<year, month, day, hour, minute, second>>.
time_tag(now) == SubSeq(now, 1, 5)

plot_path(cachedir, now) == [dir |-> cachedir, file |-> <<"flux_">> \o time_tag(now)]

\* plot(): min(flux) raises ValueError when there is no record.
plotOk(data) == Len(data.fields) > 0

\* flux.time.strftime / alerts.time.strftime raise AttributeError on None.
strftimeOk(data) == data.date # None

(***************************************************************************)
(* Upstream responses the environment may serve.                           *)
(***************************************************************************)
LIssued1 == <<":Issued:", "2024", "Mar", "04", "1205", "UTC">>
LIssued2 == <<":Issued:", "2024", "Mar", "11", "0005", "UTC">>
LIssuedBad == <<":Issued:", "2024", "Mar", "04">>
LProduct == <<":Product:", "27-day">>
LComment == <<"#", "Prepared">>
LBlank == <<>>
LRec1 == <<"2024", "Mar", "05", "120", "6", "2">>
LRec1b == <<"2024", "Mar", "05", "120", "6", "3">>
LRecShort == <<"2024", "Mar", "05", "120">>
LRecNonInt == <<"2024", "Mar", "05", "120", "6", "x">>
LRecBadDate == <<"2024", "Foo", "05", "120", "6", "2">>
LSolar == <<"Solar", "flux", "120">>
LStorm == <<"Geomagnetic", "storms", "likely">>
LNoSpace == <<"No", "space", "weather", "storms">>

ConnectionError == [kind |-> "conn", status |-> 0, text |-> <<>>]
Http(status, text) == [kind |-> "http", status |-> status, text |-> text]
NoResponse == [kind |-> "none", status |-> 0, text |-> <<>>]

FluxResponses ==
  { ConnectionError,
    Http(500, <<>>),
    Http(HTTP_OK, <<LIssued1, LProduct, LComment, LBlank, LRec1>>),
    Http(HTTP_OK, <<LIssued1, LRec1b>>),
    Http(HTTP_OK, <<LIssued2, LRec1, LRec1b>>),
    Http(HTTP_OK, <<LIssued2>>),
    Http(HTTP_OK, <<LComment, LRec1>>),
    Http(HTTP_OK, <<LIssued2, LRecShort>>),
    Http(HTTP_OK, <<LIssued2, LRecNonInt>>),
    Http(HTTP_OK, <<LIssued2, LRecBadDate>>) }

AlertsResponses ==
  { ConnectionError,
    Http(500, <<>>),
    Http(HTTP_OK, <<LIssued1, LComment, LBlank, LSolar>>),
    Http(HTTP_OK, <<LIssued1, LStorm>>),
    Http(HTTP_OK, <<LIssued2, LNoSpace>>),
    Http(HTTP_OK, <<LProduct, LSolar>>),
    Http(HTTP_OK, <<LIssuedBad, LSolar>>) }

Responses(feed) == IF feed = "flux" THEN FluxResponses ELSE AlertsResponses

Clock == {<<2024, 3, 11, 13, 0, 10>>, <<2024, 3, 11, 13, 0, 50>>, <<2024, 3, 11, 13, 1, 5>>}

CACHE_DIR == "/tmp/sunslack-data"

SlackResults == {"ok", "error"}
ConfigResults == {"ok", "nofile", "nooption", "nofont"}
Options == [alerts : BOOLEAN, flux : BOOLEAN, muf : BOOLEAN]

(***************************************************************************)
(* State.                                                                  *)
(*   pc         where main is: "idle" between two invocations, "Alerts" /  *)
(*              "Flux" before the constructor of that class, "get_alerts"  *)
(*              / "get_flux" after it, "get_muf" before get_muf            *)
(*   opts       the command line flags of the invocation                   *)
(*   cache      the pickle files: feed -> optional snapshot                *)
(*   obj        the Alerts / Flux object: feed -> [data, newdata]          *)
(*   exitstatus exit status of the last finished invocation                *)
(*   config     how Config() ended in this invocation                      *)
(*   damage     the state of each pickle file: "intact", "empty" (reads    *)
(*              with EOFError) or "garbled" (reads with UnpicklingError)   *)
(*   message    the alert lines handed to chat_postMessage in this run     *)
(* History, read by the properties only:                                   *)
(*   run        what this invocation did so far, per feed                  *)
(*   watch      the feed whose values are recorded in cur and last, or     *)
(*              "files" when the chart files are recorded instead          *)
(*   cur        request, cache entry read and snapshot parsed for the      *)
(*              watched feed in this invocation                            *)
(*   last       the same, with run[watch] and the cache entry left behind, *)
(*              for the previous invocation that requested the watched feed*)
(*   chart      the chart file last written while the files are watched:   *)
(*              the snapshot's date, the time of the run, the path         *)
(***************************************************************************)
NoTrace ==
  [fetched |-> FALSE, status |-> 0, raised |-> FALSE, detected |-> FALSE,
   newdata |-> FALSE, wrote |-> FALSE, plots |-> 0, posts |-> 0, slack |-> "none",
   failed |-> FALSE, found |-> FALSE, damaged |-> "intact"]

NoValues == [resp |-> NoResponse, cached |-> None, parsed |-> None]

NoLast == [values |-> NoValues, trace |-> NoTrace, cacheAfter |-> None]

NoObject == [data |-> NoaaData, newdata |-> FALSE]

Boot ==
  /\ pc = "idle"
  /\ opts = [alerts |-> FALSE, flux |-> FALSE, muf |-> FALSE]
  /\ config = "ok"
  /\ cache = [f \in Feeds |-> None]
  /\ damage = [f \in Feeds |-> "intact"]
  /\ obj = [f \in Feeds |-> NoObject]
  /\ message = <<>>
  /\ chart = None
  /\ exitstatus = EX_OK
  /\ run = [k \in Kinds |-> NoTrace]
  /\ last = NoLast

Init ==
  /\ Boot
  /\ watch \in Feeds
  /\ cur = NoValues

InitFiles ==
  /\ Boot
  /\ watch = "files"
  /\ cur = NoValues

\* main, lines 414-419: the stage that follows stage `after`.
NextStage(o, after) ==
  IF after = "main" /\ o.alerts THEN "Alerts"
  ELSE IF after \in {"main", "alerts"} /\ o.flux THEN "Flux"
  ELSE IF after \in {"main", "alerts", "flux"} /\ o.muf THEN "get_muf"
  ELSE "idle"

\* The function returned: main goes on, or returns when nothing is left.
Return(after) ==
  /\ pc' = NextStage(opts, after)
  /\ exitstatus' = IF NextStage(opts, after) = "idle" THEN EX_OK ELSE exitstatus

\* sys.exit(status), or an exception nothing catches.
Exit(status) ==
  /\ pc' = "idle"
  /\ exitstatus' = status

ConfigFatal_fallback(cfg) == cfg \in {"nofile", "nofont"}

\* Config.__init__: the three sys.exit calls.
ConfigFatal(cfg) == cfg \in {"nofile", "nooption", "nofont"}

ConfigStatus_same(cfg) == EX_CONFIG

ConfigStatus(cfg) == IF cfg \in {"nofile", "nooption"} THEN EX_CONFIG ELSE EX_IOERR

\* main up to line 412: arguments, Config(), the check that a feed is selected.
Main(o, cfg) ==
  /\ pc = "idle"
  /\ opts' = o
  /\ config' = cfg
  /\ message' = <<>>
  /\ run' = [k \in Kinds |-> NoTrace]
  /\ cur' = NoValues
  /\ last' = IF watch \in Feeds /\ run[watch].fetched
             THEN [values |-> cur, trace |-> run[watch], cacheAfter |-> cache[watch]]
             ELSE last
  /\ obj' = [f \in Feeds |-> NoObject]
  /\ UNCHANGED <<cache, damage, watch, chart>>
  /\ IF ConfigFatal(cfg) THEN Exit(ConfigStatus(cfg))
     ELSE /\ pc' = NextStage(o, "main")
          /\ exitstatus' = IF NextStage(o, "main") = "idle" THEN EX_OK ELSE exitstatus

Unreachable_never(req) == FALSE

\* requests.get raised ConnectionError.
Unreachable(req) == req.kind = "conn"

\* Flux.__init__ / Alerts.__init__ with the request answered by req.
Construct(feed, req) ==
  LET loaded == readcache(cache, damage, feed)
      cached_data == loaded.data
      got == Download(feed, req)
      isnew == newdata(got.data, cached_data)
      seen == [run[feed] EXCEPT !.fetched = TRUE, !.status = req.status,
                                !.damaged = damage[feed]]
      read == [resp |-> req, cached |-> cached_data, parsed |-> None]
  IN
  /\ UNCHANGED <<opts, config, message, last, watch, chart>>
  /\ IF ~loaded.ok
     THEN /\ Exit(EX_UNCAUGHT)
          /\ run' = [run EXCEPT ![feed].damaged = damage[feed]]
          /\ UNCHANGED <<cache, damage, obj, cur>>
     ELSE IF Unreachable(req)
     THEN /\ Exit(EX_IOERR)
          /\ run' = [run EXCEPT ![feed] = seen]
          /\ cur' = IF feed = watch THEN read ELSE cur
          /\ UNCHANGED <<cache, damage, obj>>
     ELSE IF ~got.ok
     THEN /\ Exit(EX_UNCAUGHT)
          /\ run' = [run EXCEPT ![feed] = [seen EXCEPT !.raised = TRUE]]
          /\ cur' = IF feed = watch THEN read ELSE cur
          /\ UNCHANGED <<cache, damage, obj>>
     ELSE /\ obj' = [obj EXCEPT ![feed] = [data |-> got.data, newdata |-> isnew]]
          /\ cache' = IF isnew THEN writecache(cache, feed, got.data) ELSE cache
          /\ damage' = IF isnew THEN [damage EXCEPT ![feed] = "intact"] ELSE damage
          /\ run' = [run EXCEPT ![feed] =
                       [seen EXCEPT !.detected = TRUE, !.newdata = isnew,
                                    !.wrote = isnew]]
          /\ cur' = IF feed = watch THEN [read EXCEPT !.parsed = <<got.data>>] ELSE cur
          /\ pc' = IF feed = "flux" THEN "get_flux" ELSE "get_alerts"
          /\ UNCHANGED exitstatus

Alerts ==
  /\ pc = "Alerts"
  /\ \E req \in AlertsResponses : Construct("alerts", req)

Flux ==
  /\ pc = "Flux"
  /\ \E req \in FluxResponses : Construct("flux", req)

get_alerts_unguarded(result) ==
  /\ pc = "get_alerts"
  /\ UNCHANGED <<opts, config, cache, damage, obj, watch, cur, last, chart>>
  /\ message' = Alerts_text(obj["alerts"].data)
  /\ run' = [run EXCEPT !["alerts"].posts = @ + 1, !["alerts"].slack = result]
  /\ Return("alerts")

\* get_alerts after the constructor, lines 334-345.  The logging call that
\* follows a successful post formats alerts.time and raises on a None date.
get_alerts(result) ==
  /\ pc = "get_alerts"
  /\ UNCHANGED <<opts, config, cache, damage, obj, watch, cur, last, chart>>
  /\ IF ~obj["alerts"].newdata
     THEN /\ Return("alerts")
          /\ UNCHANGED <<run, message>>
     ELSE IF result = "ok" /\ ~strftimeOk(obj["alerts"].data)
     THEN /\ run' = [run EXCEPT !["alerts"].posts = @ + 1, !["alerts"].slack = result,
                                !["alerts"].failed = TRUE]
          /\ message' = Alerts_text(obj["alerts"].data)
          /\ Exit(EX_UNCAUGHT)
     ELSE /\ run' = [run EXCEPT !["alerts"].posts = @ + 1, !["alerts"].slack = result]
          /\ message' = Alerts_text(obj["alerts"].data)
          /\ Return("alerts")

\* get_flux after the constructor, lines 350-364, run at time now.  plot
\* writes the file unless it raises; the title raises on a None date.
get_flux(result, now) ==
  LET written == <<[date |-> obj["flux"].data.date, now |-> now,
                    path |-> plot_path(CACHE_DIR, now)]>>
  IN
  /\ pc = "get_flux"
  /\ UNCHANGED <<opts, config, cache, damage, obj, message, watch, cur, last>>
  /\ IF ~obj["flux"].newdata
     THEN /\ Return("flux")
          /\ UNCHANGED <<run, chart>>
     ELSE IF ~plotOk(obj["flux"].data)
     THEN /\ run' = [run EXCEPT !["flux"].plots = @ + 1, !["flux"].failed = TRUE]
          /\ UNCHANGED chart
          /\ Exit(EX_UNCAUGHT)
     ELSE IF ~strftimeOk(obj["flux"].data)
     THEN /\ run' = [run EXCEPT !["flux"].plots = @ + 1, !["flux"].failed = TRUE]
          /\ chart' = IF watch = "files" THEN written ELSE chart
          /\ Exit(EX_UNCAUGHT)
     ELSE /\ run' = [run EXCEPT !["flux"].plots = @ + 1, !["flux"].posts = @ + 1,
                                !["flux"].slack = result]
          /\ chart' = IF watch = "files" THEN written ELSE chart
          /\ Return("flux")

get_muf_unchecked(exists, result) ==
  /\ pc = "get_muf"
  /\ UNCHANGED <<opts, config, cache, damage, obj, message, watch, cur, last, chart>>
  /\ run' = [run EXCEPT !["muf"].fetched = TRUE, !["muf"].found = exists,
                         !["muf"].posts = @ + 1, !["muf"].slack = result]
  /\ Return("muf")

\* get_muf, lines 367-378.
get_muf(exists, result) ==
  /\ pc = "get_muf"
  /\ UNCHANGED <<opts, config, cache, damage, obj, message, watch, cur, last, chart>>
  /\ IF ~exists
     THEN run' = [run EXCEPT !["muf"].fetched = TRUE]
     ELSE run' = [run EXCEPT !["muf"].fetched = TRUE, !["muf"].found = TRUE,
                             !["muf"].posts = @ + 1, !["muf"].slack = result]
  /\ Return("muf")

Next ==
  \/ \E o \in Options, cfg \in ConfigResults : Main(o, cfg)
  \/ Alerts
  \/ Flux
  \/ \E result \in SlackResults : get_alerts(result)
  \/ \E result \in SlackResults, now \in Clock : get_flux(result, now)
  \/ \E exists \in BOOLEAN, result \in SlackResults : get_muf(exists, result)

Spec == Init /\ [][Next]_vars

\* Something outside the program damages a pickle file between two runs.
Damage(feed, how) ==
  /\ pc = "idle"
  /\ cache[feed] # None
  /\ damage[feed] = "intact"
  /\ damage' = [damage EXCEPT ![feed] = how]
  /\ UNCHANGED <<pc, opts, config, cache, obj, message, exitstatus,
                 run, watch, cur, last, chart>>

NextFiles ==
  \/ Next
  \/ \E feed \in Feeds, how \in {"empty", "garbled"} : Damage(feed, how)

SpecFiles == InitFiles /\ [][NextFiles]_vars

(***************************************************************************)
(* The parsers alone: every payload of at most MaxLines lines over         *)
(* ParseLines is handed to the download function of the watched feed.      *)
(***************************************************************************)
MaxLines == 3

ParseLines == {LIssued1, LIssued2, LComment, LBlank, LRec1, LNoSpace}

Payloads == UNION {[1..n -> ParseLines] : n \in 0..MaxLines}

InitParse ==
  /\ Boot
  /\ watch \in Feeds
  /\ \E text \in Payloads :
       cur = [resp |-> Http(HTTP_OK, text), cached |-> None, parsed |-> None]

\* download_flux / download on the text of the response.
Parse ==
  LET got == Download(watch, cur.resp) IN
  /\ ~run[watch].fetched
  /\ run' = [run EXCEPT ![watch].fetched = TRUE, ![watch].status = cur.resp.status,
                         ![watch].raised = ~got.ok]
  /\ cur' = [cur EXCEPT !.parsed = IF got.ok THEN <<got.data>> ELSE None]
  /\ UNCHANGED <<pc, opts, config, cache, damage, obj, message, exitstatus,
                 watch, last, chart>>

NextParse == Parse

SpecParse == InitParse /\ [][NextParse]_vars

TypeOK ==
  /\ pc \in {"idle", "Alerts", "get_alerts", "Flux", "get_flux", "get_muf"}
  /\ opts \in Options
  /\ exitstatus \in {EX_OK, EX_UNCAUGHT, EX_IOERR, EX_CONFIG}
  /\ \A f \in Feeds : Len(cache[f]) <= 1

(***************************************************************************)
(* Vocabulary of the properties.                                           *)
(***************************************************************************)
Constructor(f) == IF f = "flux" THEN "Flux" ELSE "Alerts"
Dispatch(f) == IF f = "flux" THEN "get_flux" ELSE "get_alerts"

\* The cycle of feed f in this invocation is over.
CycleOver(f) == run[f].fetched /\ pc \notin {Constructor(f), Dispatch(f)}

Selected(k) == IF k = "alerts" THEN opts.alerts
               ELSE IF k = "flux" THEN opts.flux ELSE opts.muf

\* The invocation ended and every selected feed was processed.
RunProceeded == pc = "idle" => \A k \in Kinds : Selected(k) => run[k].fetched

HttpError(f) == run[f].fetched /\ run[f].status \notin {0, HTTP_OK}

\* C1 (as claimed): for the watched feed, a run whose snapshot equals the
\* previous run's snapshot attempts no notification, and a run whose
\* snapshot differs from it attempts exactly one.
C1_OneNotificationPerChange ==
  (/\ CycleOver(watch)
   /\ run[watch].detected
   /\ last.trace.detected)
  => IF NoaaData_eq(cur.parsed[1], last.values.parsed)
     THEN run[watch].posts = 0
     ELSE run[watch].posts = 1

\* C2: the detector run twice in a row on the same snapshot, from an empty
\* cache entry, answers newdata then not newdata, and the second run leaves
\* the cache entry as the first one left it.
C2_Idempotence ==
  (/\ last.trace.detected
   /\ last.values.cached = None
   /\ run[watch].detected
   /\ cur.parsed = last.values.parsed)
  => /\ last.trace.newdata
     /\ ~run[watch].newdata
     /\ cache[watch] = last.cacheAfter

C2_Witness ==
  /\ last.trace.detected
  /\ last.values.cached = None
  /\ run[watch].detected
  /\ cur.parsed = last.values.parsed
  /\ pc = "idle"

\* Snapshots of the watched feed at hand in a state: parsed now, read from
\* the cache now, parsed by the previous run, held by the cache entry.
Snapshots ==
  {cur.parsed[i] : i \in DOMAIN cur.parsed}
  \cup {cur.cached[i] : i \in DOMAIN cur.cached}
  \cup {last.values.parsed[i] : i \in DOMAIN last.values.parsed}
  \cup {cache[watch][i] : i \in DOMAIN cache[watch]}

\* C3 (as claimed): two snapshots are equal iff their issued_at are equal
\* and their record sequences are equal.
C3_EqualByDateAndRecords ==
  \A a \in Snapshots, b \in Snapshots :
    NoaaData_eq(a, <<b>>) <=> (a.date = b.date /\ a.fields = b.fields)

\* C3 (amended): two snapshots are equal iff their issued_at are equal, the
\* records are not compared: snapshots with the same issued_at that differ
\* in a record's kp_index are equal, and so are two separately parsed
\* snapshots with identical issued_at and identical records.
C3_EqualByDate ==
  \A a \in Snapshots, b \in Snapshots :
    /\ NoaaData_eq(a, <<b>>) <=> a.date = b.date
    /\ (a.date = b.date /\ a.fields = b.fields) => NoaaData_eq(a, <<b>>)
    /\ ~NoaaData_eq(a, None)

\* Same issued_at, same number of records, one record differs in kp_index only.
DifferInKpOnly(a, b) ==
  /\ a.date = b.date
  /\ Len(a.fields) = Len(b.fields)
  /\ \E i \in DOMAIN a.fields :
       /\ a.fields[i].date = b.fields[i].date
       /\ a.fields[i].data.flux = b.fields[i].data.flux
       /\ a.fields[i].data.a_index = b.fields[i].data.a_index
       /\ a.fields[i].data.kp_index # b.fields[i].data.kp_index

C3_Witness ==
  /\ watch = "flux"
  /\ run["flux"].detected
  /\ cur.cached # None
  /\ cur.parsed[1].date # None
  /\ Len(cur.parsed[1].fields) = 1
  /\ DifferInKpOnly(cur.parsed[1], cur.cached[1])

\* The watched feed parsed a snapshot whose issued_at is the cached one's
\* and whose records are not.
SameIssueOtherRecords ==
  /\ run[watch].detected
  /\ cur.cached # None
  /\ cur.parsed[1].date = cur.cached[1].date
  /\ cur.parsed[1].fields # cur.cached[1].fields

\* C4: records that change under an unchanged issued_at are not a change:
\* newdata is False, the cache entry is not rewritten, nothing is notified.
C4_SameIssueIsUnchanged ==
  SameIssueOtherRecords
  => /\ ~run[watch].newdata
     /\ ~obj[watch].newdata
     /\ ~run[watch].wrote
     /\ cache[watch] = cur.cached
     /\ run[watch].plots = 0
     /\ run[watch].posts = 0

C4_Witness ==
  /\ SameIssueOtherRecords
  /\ cur.parsed[1].date # None
  /\ CycleOver(watch)

\* C5: newdata is True iff the cache load returned None or a value not equal
\* to the parsed snapshot; a first parse for an empty entry is always new.
C5_NewIffAbsentOrUnequal ==
  run[watch].detected
  => /\ run[watch].newdata
          <=> (cur.cached = None \/ cur.cached[1].date # cur.parsed[1].date)
     /\ obj[watch].newdata = run[watch].newdata
     /\ cur.cached = None => run[watch].newdata

C5_Witness ==
  /\ run[watch].detected
  /\ last.trace.detected
  /\ last.trace.newdata
  /\ last.values.cached = None
  /\ ~run[watch].newdata
  /\ cur.cached # None

\* C6: a cache entry changes only in the constructor of its own feed, which
\* stores the parsed snapshot when newdata is True and leaves the entry alone
\* when newdata is False; the snapshot is stored when the dispatch starts.
C6_SingleWriter ==
  [][\A f \in Feeds :
       /\ cache'[f] # cache[f]
            => /\ pc = Constructor(f)
               /\ pc' = Dispatch(f)
               /\ obj'[f].newdata
               /\ cache'[f] = <<obj'[f].data>>
       /\ (pc = Constructor(f) /\ pc' = Dispatch(f))
            => IF obj'[f].newdata
               THEN cache'[f] = <<obj'[f].data>>
               ELSE cache'[f] = cache[f]]_vars

C6_Witness ==
  /\ pc = "idle"
  /\ run["alerts"].wrote
  /\ run["alerts"].posts = 1
  /\ cache["alerts"] = <<obj["alerts"].data>>
  /\ run["flux"].detected
  /\ ~run["flux"].newdata
  /\ run["muf"].posts = 1

\* C7 (as claimed): a parse failure in a feed produces no snapshot, writes
\* no cache entry and notifies nothing for that feed, and the run goes on
\* to the other selected feeds.
C7_ParseFailureIsLocal ==
  \A f \in Feeds :
    run[f].raised
    => /\ ~run[f].detected
       /\ ~run[f].wrote
       /\ run[f].posts = 0
       /\ RunProceeded

\* C8 (as claimed): a response whose status is not 200 leaves the feed's
\* cache entry as it was and notifies nothing for that feed, and the other
\* selected feeds are processed in the same run.
C8_HttpErrorIsNoData ==
  \A f \in Feeds :
    HttpError(f)
    => /\ ~run[f].wrote
       /\ (f = watch => cache[f] = cur.cached)
       /\ run[f].posts = 0
       /\ RunProceeded

\* C9 (as claimed): no cache entry holds a snapshot whose issued_at is None,
\* and a snapshot whose issued_at is None is never new against a populated
\* cache entry.
C9_NoUndatedSnapshotCached ==
  /\ \A f \in Feeds : cache[f] # None => cache[f][1].date # None
  /\ (/\ run[watch].detected
      /\ cur.parsed[1].date = None
      /\ cur.cached # None)
     => ~run[watch].newdata

\* The previous run of the watched feed found a change, cached it, and the
\* Slack call failed.
DeliveryFailed(trace) == trace.newdata /\ trace.wrote /\ trace.slack = "error"

\* C10: a change that was cached and whose Slack call failed stays cached,
\* and the next run with the same upstream content is not new and notifies
\* nothing.
C10_AtMostOnce ==
  /\ DeliveryFailed(run[watch]) => cache[watch] = cur.parsed
  /\ (/\ DeliveryFailed(last.trace)
      /\ run[watch].fetched
      /\ cur.resp = last.values.resp)
     => /\ last.cacheAfter = last.values.parsed
        /\ cur.cached = last.values.parsed
        /\ run[watch].detected
        /\ ~run[watch].newdata
        /\ (CycleOver(watch) => run[watch].posts = 0 /\ run[watch].plots = 0)

C10_Witness ==
  /\ DeliveryFailed(last.trace)
  /\ run[watch].fetched
  /\ cur.resp = last.values.resp
  /\ CycleOver(watch)
  /\ pc = "idle"

\* The dispatch of feed f failed: Slack refused the call, or composing or
\* rendering raised.
DispatchFailed(f) == run[f].slack = "error" \/ run[f].failed

\* C11 (as claimed): a failed dispatch of one feed never keeps the feeds
\* selected after it from being processed.
C11_DispatchIndependent ==
  (\E f \in Feeds : DispatchFailed(f)) => RunProceeded

\* C12: a feed whose detector answered newdata=False gets no chat message,
\* no chart render and no upload in that run.
C12_NoActionWithoutChange ==
  \A f \in Feeds :
    (run[f].detected /\ ~run[f].newdata)
    => /\ run[f].posts = 0
       /\ run[f].plots = 0
       /\ run[f].slack = "none"
       /\ ~run[f].failed

C12_Witness ==
  /\ pc = "idle"
  /\ \A f \in Feeds : run[f].detected /\ ~run[f].newdata /\ cache[f] # None

\* The external actions attempted in this run, over the three kinds.
Actions == run["alerts"].posts + run["flux"].plots + run["flux"].posts + run["muf"].posts

\* C13 (as claimed): every action, the upload of the static file included,
\* is attempted only for a feed whose snapshot changed in this run; a run in
\* which one feed changed attempts the actions of that feed only.
C13_SelectiveDispatch ==
  /\ \A f \in Feeds : run[f].posts + run[f].plots > 0 => run[f].newdata
  /\ run["muf"].posts > 0 => \E f \in Feeds : run[f].newdata
  /\ (run["alerts"].newdata /\ ~run["flux"].newdata) => Actions = run["alerts"].posts
  /\ (run["flux"].newdata /\ ~run["alerts"].newdata)
       => Actions = run["flux"].plots + run["flux"].posts

\* C13 (amended): the chat message of the alert feed and the chart render of
\* the outlook feed are attempted exactly when that feed's snapshot changed,
\* and the chart upload only then; the static file is uploaded by every run
\* that reaches get_muf and finds the file, whether or not any feed changed.
C13_SelectiveForFeedsOnly ==
  /\ CycleOver("alerts") /\ run["alerts"].detected
       => run["alerts"].posts = (IF run["alerts"].newdata THEN 1 ELSE 0)
  /\ CycleOver("flux") /\ run["flux"].detected
       => /\ run["flux"].plots = (IF run["flux"].newdata THEN 1 ELSE 0)
          /\ run["flux"].posts <= run["flux"].plots
  /\ \A f \in Feeds : ~run[f].detected => run[f].posts = 0 /\ run[f].plots = 0
  /\ run["muf"].fetched => run["muf"].posts = (IF run["muf"].found THEN 1 ELSE 0)
  /\ ~run["muf"].fetched => run["muf"].posts = 0

C13_Witness ==
  /\ pc = "idle"
  /\ run["alerts"].detected /\ ~run["alerts"].newdata
  /\ run["flux"].detected /\ ~run["flux"].newdata
  /\ run["muf"].found
  /\ run["muf"].posts = 1

\* C14 (as claimed): a cache entry that cannot be read (empty, truncated
\* or garbled file) loads as None: the run does not crash, the feed is
\* found new and the entry is overwritten with the parsed snapshot.
C14_UnreadableCacheIsNoCache ==
  \A f \in Feeds :
    run[f].damaged # "intact"
    => /\ run[f].fetched
       /\ run[f].detected
            => /\ run[f].newdata
               /\ run[f].wrote
               /\ cache[f] = <<obj[f].data>>
               /\ damage[f] = "intact"

\* The last invocation ended in sys.exit after a ConnectionError.
NetworkExit == pc = "idle" /\ \E f \in Feeds : run[f].fetched /\ run[f].status = 0

\* C15 (as claimed): the exit status of a connection failure differs from
\* the status of a configuration error and from the status of an I/O error
\* (missing font file).
C15_ThreeStatuses ==
  [][(NetworkExit /\ pc' = "idle" /\ ConfigFatal(config'))
       => exitstatus' # exitstatus]_vars

\* C15 (amended): the exit status of a connection failure differs from the
\* status of a configuration error (missing file or option) and is the same
\* as the status of an I/O error (missing font file).
C15_TwoStatuses ==
  [][(NetworkExit /\ pc' = "idle" /\ ConfigFatal(config'))
       => IF config' = "nofont"
          THEN exitstatus' = exitstatus
          ELSE exitstatus' # exitstatus]_vars

C15_Witness ==
  /\ pc = "idle"
  /\ config = "nofont"
  /\ exitstatus = EX_IOERR
  /\ last.trace.fetched
  /\ last.trace.status = 0
  /\ \A k \in Kinds : ~run[k].fetched

ConfigErrors == {"nofile", "nooption"}

\* C16: a configuration error (missing file, missing token or channel)
\* ends the process before any fetch, cache read or write, or notification.
C16_ConfigErrorFirst ==
  /\ [](config \in ConfigErrors
          => /\ pc = "idle"
             /\ exitstatus = EX_CONFIG
             /\ message = <<>>
             /\ \A k \in Kinds : run[k] = NoTrace)
  /\ [][config' \in ConfigErrors
          => /\ pc = "idle"
             /\ cache' = cache
             /\ damage' = damage
             /\ chart' = chart]_vars

C16_Witness ==
  /\ config = "nooption"
  /\ pc = "idle"
  /\ opts.alerts /\ opts.flux /\ opts.muf
  /\ cache["alerts"] # None

ConnectionFailed(trace) == trace.fetched /\ trace.status = 0

\* The kinds main handles after kind k.
After(k) == IF k = "alerts" THEN {"flux", "muf"}
            ELSE IF k = "flux" THEN {"muf"} ELSE {}

\* C17: a connection failure while fetching a feed ends the run: the feed's
\* cache entry is unchanged, nothing is notified for it, no later feed is
\* fetched; what earlier feeds wrote stays; a later run whose fetch succeeds
\* compares with the unchanged entry and finds a pending change new.
C17_ConnectionFailureEndsRun ==
  /\ \A f \in Feeds :
       ConnectionFailed(run[f])
       => /\ pc = "idle"
          /\ exitstatus = EX_IOERR
          /\ ~run[f].detected /\ ~run[f].wrote
          /\ run[f].posts = 0 /\ run[f].plots = 0
          /\ f = watch => cache[f] = cur.cached
          /\ \A k \in After(f) : run[k] = NoTrace
  /\ (ConnectionFailed(run["flux"]) /\ run["alerts"].wrote)
       => cache["alerts"] = <<obj["alerts"].data>>
  /\ (ConnectionFailed(last.trace) /\ run[watch].detected)
       => /\ cur.cached = last.values.cached
          /\ cur.cached = last.cacheAfter
          /\ (cur.cached = None \/ cur.cached[1].date # cur.parsed[1].date)
               => run[watch].newdata /\ cache[watch] = cur.parsed

C17_Witness ==
  /\ ConnectionFailed(last.trace)
  /\ run[watch].detected
  /\ run[watch].newdata
  /\ cur.cached # None
  /\ pc = "idle"

\* The lines of the payload of the watched feed that carry the issue marker.
IssuedLines ==
  SelectSeq(cur.resp.text,
            LAMBDA l : StartsWith(l, IF watch = "flux" THEN IssuedColonTokens
                                     ELSE IssuedTokens))

\* C18 (as claimed): with several ':Issued:' lines the snapshot's issued_at
\* comes from the first one.
C18_FirstIssuedWins ==
  (cur.parsed # None /\ Len(IssuedLines) > 0)
  => cur.parsed[1].date = StrpIssued(IssuedLines[1])

\* C18 (amended): with several ':Issued:' lines the snapshot's issued_at
\* comes from the last one, every earlier occurrence is overwritten; without
\* such a line it stays None.
C18_LastIssuedWins ==
  cur.parsed # None
  => IF Len(IssuedLines) > 0
     THEN cur.parsed[1].date = StrpIssued(IssuedLines[Len(IssuedLines)])
     ELSE cur.parsed[1].date = None

C18_Witness ==
  /\ cur.parsed # None
  /\ Len(IssuedLines) >= 2
  /\ StrpIssued(IssuedLines[1]) # StrpIssued(IssuedLines[Len(IssuedLines)])
  /\ Len(cur.parsed[1].fields) > 0

\* The lines of a payload that are neither blank nor marker nor comment.
ContentLines(text) ==
  SelectSeq(text, LAMBDA l : /\ l # <<>>
                             /\ ~StartsWith(l, ColonTokens)
                             /\ ~StartsWith(l, HashTokens))

\* C19: the text handed to Slack is the stored line sequence without the
\* lines starting with 'No space weather' (empty when there is no other
\* line), and the snapshot that is cached keeps every content line of the
\* payload, those lines included.
C19_SuppressionOnlyInText ==
  (watch = "alerts" /\ run["alerts"].posts = 1)
  => LET fields == obj["alerts"].data.fields
         kept == {i \in DOMAIN fields : ~Sentinel(fields[i])}
     IN /\ fields = ContentLines(cur.resp.text)
        /\ cache["alerts"] = <<obj["alerts"].data>>
        /\ cur.parsed = cache["alerts"]
        /\ Len(message) = Cardinality(kept)
        /\ \A i \in DOMAIN message : ~Sentinel(message[i])
        /\ \A i \in kept : \E j \in DOMAIN message : message[j] = fields[i]
        /\ \A i, j \in DOMAIN message :
             i < j => \E k, l \in kept : k < l /\ fields[k] = message[i]
                                               /\ fields[l] = message[j]

C19_Witness ==
  /\ watch = "alerts"
  /\ run["alerts"].posts = 1
  /\ message = <<>>
  /\ Len(cache["alerts"][1].fields) = 1
  /\ Sentinel(cache["alerts"][1].fields[1])

\* A step of get_flux that wrote a chart file.
Rendered ==
  /\ pc = "get_flux"
  /\ run'["flux"].plots = 1
  /\ plotOk(obj["flux"].data)
  /\ chart' # None

\* C20 (as claimed): the chart path is determined by the snapshot's
\* issued_at: of two charts written one after the other, those with distinct
\* issued_at have distinct paths and those with the same issued_at the same.
C20_PathByIssuedAt ==
  [][(Rendered /\ chart # None)
       => (chart'[1].date = chart[1].date <=> chart'[1].path = chart[1].path)]_vars

\* C20 (amended): the chart path is determined by the wall clock time of the
\* run, to the minute, and not by issued_at: two charts have the same path
\* iff they were written in the same minute.
C20_PathByMinute ==
  [][(Rendered /\ chart # None)
       => (chart'[1].path = chart[1].path
             <=> \A i \in 1..5 : chart'[1].now[i] = chart[1].now[i])]_vars

C20_Witness ==
  /\ pc = "idle"
  /\ chart # None
  /\ run["flux"].plots = 1
  /\ run["flux"].posts = 1
  /\ chart[1].date = cache["flux"][1].date
  /\ chart[1].date = obj["flux"].data.date

====
